---- MODULE Spec2Model ----
(***************************************************************************)
(* ResourceHandler of node-red-contrib-amqp (src/src/core/resource.ts),    *)
(* the revision that the Connection, Sender and Subscriber import.         *)
(*                                                                         *)
(* One handler object is modelled.  Its fields are the fields of the       *)
(* record h.  A step of the model is one task of the Node.js event loop:   *)
(* a call made by the user of the handler (close, connect), a settled      *)
(* factory promise, a fired timer (p-retry backoff, reconnect delay), an   *)
(* event emitted by a resource.  The continuation of an `await` is a step  *)
(* of its own (SetToCloseResume, CloseResume) that runs before any further *)
(* task, as the microtask queue is drained before the next task starts.    *)
(*                                                                         *)
(* p-retry 4 (package.json) is modelled by what it does with the options   *)
(* of resource.ts: the input runs at once, each failure calls              *)
(* onFailedAttempt, after `retries` retries the promise rejects with       *)
(* retry's mainError(), an AbortError rejects at once without calling      *)
(* onFailedAttempt.                                                        *)
(***************************************************************************)
EXTENDS Naturals, Sequences, FiniteSets, TLC

\* h: a handler on its own; n: a Connection with the Sender and the Subscriber
\* built on it; pool: the module pool.ts with the Connections it made; io: a
\* Node-RED message on its way through an amqp-out node, the broker and an
\* amqp-in node; bo: the retry options a handler is made with and the
\* waits between the calls of its factory
VARIABLES h, n, pool, io, bo

vars == <<h, n, pool, io, bo>>

----------------------------------------------------------------------------
(* Bounds of the model *)

\* acquisition sequences (calls of p-retry) one handler may start
MaxSeq == 3
\* opts.retry.retries, an option of the handler (default 10)
Retries == 1
\* calls of close() by the user of the handler
MaxClose == 2
\* faults the broker and the network inject into a node: refused connections
\* and channels, failed consume calls, error and close events of resources
MaxFaults == 2
\* deliveries the broker makes to the consumers of a Subscriber
MaxMsgs == 2
\* calls of pool.open and pool.close
MaxOps == 3
\* 'blocked' and 'unblocked' events a broker connection emits
MaxEvents == 2

\* failures of the factory in one acquisition
MaxFails == 3

\* messages a failing factory may reject with.  Messages are only compared
\* for equality, so the first failure of a sequence is named "e1".
ErrMsgs == {"e1", "e2"}

FailureMsgs(errs) == IF errs = <<>> THEN {"e1"} ELSE ErrMsgs

----------------------------------------------------------------------------
(* ResourceStatus *)

Connecting == "connecting"
Connected == "connected"
Error == "error"
Closing == "closing"
Closed == "closed"

ResourceStatus == {Connecting, Connected, Error, Closing, Closed}

maxReconnectAttempts == 5

None == "none"

SeqIds == 1..MaxSeq

\* the promise `Promise.reject(new Error("... is closed"))` of __setToClose
Rejected == 0

Promises == {Rejected} \cup SeqIds

\* Error("<name> is closed"), Error("Connection is aborted"), a resource's error
ClosedError == "closed"
AbortError == "aborted"
ResourceError == "resource"

----------------------------------------------------------------------------
(* The promise of an acquisition sequence s is att[s]:                     *)
(*   st    "idle"    not started                                           *)
(*         "factory" the factory's promise is pending                      *)
(*         "backoff" p-retry waits before the next attempt                 *)
(*         "ok"      resolved to the resource s                            *)
(*         "null"    resolved to null by the catch handler                 *)
(*         "threw"   rejected: emit('error') threw in the catch handler    *)
(*   errs  the failures of the factory so far                              *)
(*   calls the invocations of the factory so far                           *)
(*   rej   the rejection when st = "threw"                                 *)
(* The resource a sequence s obtains is res[s].                            *)

IdleAttempt == [st |-> "idle", errs |-> <<>>, calls |-> 0, rej |-> None]

NoResource == [made |-> FALSE, subscribed |-> FALSE, lost |-> FALSE, closed |-> 0]

Started(hh) == Cardinality({s \in SeqIds : hh.att[s].st # "idle"})

CanStart(hh) == Started(hh) < MaxSeq

Pending(hh, p) ==
    IF p = Rejected THEN FALSE ELSE hh.att[p].st \in {"factory", "backoff"}

Settled(hh, p) ==
    IF p = Rejected THEN TRUE ELSE hh.att[p].st \in {"ok", "null", "threw"}

\* `await p` throws
Throws(hh, p) == IF p = Rejected THEN TRUE ELSE hh.att[p].st = "threw"

RejectionOf(hh, p) == IF p = Rejected THEN ClosedError ELSE hh.att[p].rej

----------------------------------------------------------------------------
(* EventEmitter of the handler *)

\* emit of an event other than 'error', or of 'error' with a listener.  log[src]
\* holds, in their order, the events emitted on behalf of the sequence and
\* the resource src; log[0] holds the 'close' events.
emit(hh, ev, src) == [hh EXCEPT !.log[src] = Append(@, ev)]

removeAllListeners(hh) == [hh EXCEPT !.onError = FALSE, !.onStatus = FALSE]

\* ticks holds the callbacks handed to process.nextTick that have not run yet
__setStatus(hh, nextStatus) ==
    [hh EXCEPT !.__status = nextStatus, !.ticks = Append(@, nextStatus)]

\* the callbacks of process.nextTick: emit('status', nextStatus), which reaches
\* the listeners registered at that moment; seen is the status they saw last
statusTicks(hh) ==
    IF hh.onStatus
    THEN [hh EXCEPT !.seen = hh.ticks[Len(hh.ticks)], !.ticks = <<>>]
    ELSE [hh EXCEPT !.ticks = <<>>]

----------------------------------------------------------------------------
(* retry.mainError(): the error whose message occurred most often, the    *)
(* latest one among equals                                                 *)

Count(errs, i, m) == Cardinality({j \in 1..i : errs[j] = m})

RECURSIVE mainErrorFrom(_, _, _, _)
mainErrorFrom(errs, i, main, mainCount) ==
    IF i > Len(errs) THEN main
    ELSE LET c == Count(errs, i, errs[i])
         IN  IF c >= mainCount
             THEN mainErrorFrom(errs, i + 1, errs[i], c)
             ELSE mainErrorFrom(errs, i + 1, main, mainCount)

mainError(errs) == mainErrorFrom(errs, 1, None, 0)

----------------------------------------------------------------------------
(* ResourceHandler *)

\* __connect up to the first invocation of the factory, which p-retry makes
\* synchronously
__connect(hh, force) ==
    IF ~force /\ hh.__status \in {Connecting, Connected, Closing, Closed}
    THEN hh
    ELSE LET s == Started(hh) + 1
         IN  [__setStatus(hh, Connecting)
                  EXCEPT !.__err = None,
                         !.__resource = s,
                         !.att[s] = [st |-> "factory", errs |-> <<>>,
                                     calls |-> 1, rej |-> None]]

\* connect() up to its await; what follows the await changes nothing
connect(hh) == __connect(hh, FALSE)

__attemptReconnect(hh) ==
    IF hh.__status # Connected THEN connect(hh) ELSE hh

\* __setToClose up to its await.  With status Connected nothing is awaited
\* but __attemptReconnect's own promise, and the code returns.
__setToClose(hh) ==
    IF hh.isReconnecting THEN hh
    ELSE LET h1 == __attemptReconnect(hh)
         IN  IF hh.__status = Connected THEN h1
             ELSE [h1 EXCEPT !.stc[h1.__resource] = @ + 1]

closeBlock(hh) ==
    removeAllListeners(
        emit(__setStatus([hh EXCEPT !.__resource = Rejected], Closed),
             "close", 0))

\* __setToClose after its await of the promise p
__setToCloseResume(hh, p) ==
    LET h1 == [hh EXCEPT !.stc[p] = @ - 1]
    IN  IF Throws(h1, p)
        THEN closeBlock([h1 EXCEPT !.__err = RejectionOf(h1, p)])
        ELSE IF h1.__status = Connected THEN h1
        ELSE closeBlock(h1)

\* __handleReconnect up to its await of the delay
__handleReconnect(hh) ==
    IF hh.isReconnecting THEN hh
    ELSE IF 0 < maxReconnectAttempts
         THEN [hh EXCEPT !.isReconnecting = TRUE,
                         !.reconnectAttempts = 1,
                         !.delay = TRUE]
         ELSE __setToClose([hh EXCEPT !.reconnectAttempts = 0])

\* __handleReconnect after the delay: __connect returns no promise, the
\* await of its result cannot throw, so the first pass returns
__handleReconnectResume(hh) ==
    [__connect(hh, TRUE) EXCEPT !.isReconnecting = FALSE, !.delay = FALSE]

\* the .catch of __connect: emit('error') throws when nobody listens
catchHandler(hh, s, err) ==
    LET h1 == __setStatus([hh EXCEPT !.__err = err], Error)
    IN  IF h1.onError
        THEN [emit(h1, "error", s) EXCEPT !.att[s].st = "null"]
        ELSE [h1 EXCEPT !.att[s].st = "threw", !.att[s].rej = err]

__subscribe(hh, r) == [hh EXCEPT !.res[r].subscribed = TRUE]

\* the .then of __connect, with the resource the factory resolved to
thenHandler(hh, s) ==
    LET h1 == [hh EXCEPT !.res[s].made = TRUE]
    IN  IF h1.__status = Closing
        THEN catchHandler(__setToClose(h1), s, ClosedError)
        ELSE [emit(__setStatus(__subscribe(h1, s), Connected), "open", s)
                  EXCEPT !.att[s].st = "ok"]

\* an onFailedAttempt that emits nothing
onFailedAttemptSilent(hh, s) == hh

onFailedAttempt(hh, s) == emit(hh, "retry", s)

\* p-retry after a rejection of the factory with message e
factoryRejected(hh, s, e) ==
    LET errs == Append(hh.att[s].errs, e)
        h1 == onFailedAttempt([hh EXCEPT !.att[s].errs = errs], s)
    IN  IF Len(errs) <= Retries
        THEN [h1 EXCEPT !.att[s].st = "backoff"]
        ELSE catchHandler(h1, s, mainError(errs))

\* the input p-retry runs for an attempt after a backoff
retryInput(hh, s) ==
    IF hh.__status = Closing
    THEN catchHandler(__setToClose(hh), s, AbortError)
    ELSE [hh EXCEPT !.att[s].st = "factory", !.att[s].calls = @ + 1]

\* close() up to its await
close(hh) ==
    IF hh.__status = Closed
    THEN [hh EXCEPT !.closes = Append(@, [at |-> hh.__status, st |-> "rejected",
                                          on |-> Rejected])]
    ELSE IF hh.__status = Connecting
    THEN [__setStatus(hh, Closing)
              EXCEPT !.closes = Append(@, [at |-> hh.__status, st |-> "ok",
                                           on |-> Rejected])]
    ELSE [__setStatus(hh, Closed)
              EXCEPT !.closes = Append(@, [at |-> hh.__status, st |-> "wait",
                                           on |-> hh.__resource])]

\* close() after its await, with opts.closer: closerCloses tells whether the
\* closer closes the resource it is given
closeResumeWithCloser(hh, i, closerCloses) ==
    LET p == hh.closes[i].on
    IN  IF Throws(hh, p)
        THEN [hh EXCEPT !.closes[i].st = "rejected"]
        ELSE IF hh.att[p].st = "null"
        THEN [hh EXCEPT !.closes[i].st = "ok"]
        ELSE [hh EXCEPT !.closes[i].st = "ok",
                        !.res[p].subscribed = FALSE,
                        !.res[p].closed = IF closerCloses THEN @ + 1 ELSE @]

\* close() after its await, without opts.closer: res.close()
closeResume(hh, i) == closeResumeWithCloser(hh, i, TRUE)

\* resource(): what the call settles to
resource(hh) ==
    LET p == hh.__resource
    IN  IF ~Settled(hh, p) THEN "pending"
        ELSE IF Throws(hh, p) THEN "rejected"
        ELSE IF hh.att[p].st = "null" THEN "unavailable"
        ELSE "resource"

\* the listener of the resource's 'error'
onResourceError(hh, r) ==
    LET h1 == __setStatus([hh EXCEPT !.res[r].subscribed = FALSE,
                                     !.res[r].lost = TRUE,
                                     !.__err = ResourceError], Error)
        h2 == __handleReconnect(h1)
    IN  IF h2.onError THEN emit(h2, "error", r)
        ELSE [h2 EXCEPT !.crashed = TRUE]

\* the listener of the resource's 'close'
onResourceClose(hh, r) ==
    __setToClose([hh EXCEPT !.res[r].subscribed = FALSE, !.res[r].lost = TRUE])

\* the constructor
New(listens) ==
    __connect([__status |-> Connecting,
               __err |-> None,
               __resource |-> Rejected,
               isReconnecting |-> FALSE,
               reconnectAttempts |-> 0,
               delay |-> FALSE,
               att |-> [s \in SeqIds |-> IdleAttempt],
               res |-> [s \in SeqIds |-> NoResource],
               stc |-> [p \in Promises |-> 0],
               closes |-> <<>>,
               log |-> [p \in Promises |-> <<>>],
               onError |-> listens,
               onStatus |-> TRUE,
               ticks |-> <<>>,
               seen |-> None,
               crashed |-> FALSE], TRUE)

----------------------------------------------------------------------------
(* Connection, Sender, Subscriber: each owns a ResourceHandler.  The node   *)
(* nn holds the three handlers and, for the channels, what the broker side  *)
(* knows of them:                                                           *)
(*   parts        the handlers that have been constructed                   *)
(*   faults       the faults injected so far                                *)
(*   dep[k][s]    the promise of the Connection's handler that the factory  *)
(*                of k awaits in conn.createChannel(), for its sequence s   *)
(*   from[k][s]   the broker connection the channel s of k was opened on    *)
(*   phase[s]     the await the Subscriber's factory is at                  *)
(*   consumers[s] the calls of consume made on the channel s                *)
(*   sent         the last call of Sender.send: its arguments, the calls of *)
(*                publish it made, what it settled to                       *)
(*   delivered    the deliveries made to the consumer callbacks             *)
(*   messages     the 'message' events emitted on the Subscriber's handler  *)
(*   emitted      the 'blocked' and 'unblocked' events the broker connection *)
(*                held by the Connection has emitted                         *)
(*   forwarded    those of them emitted again on the Connection's handler    *)

Handlers == {"conn", "snd", "sub"}

Channels == {"snd", "sub"}

NoConnection == 0

\* the queue of the Subscriber, the exchange of the Sender
Queue == "q"
Exchange == "x"

\* Connection.createChannel up to its await: the promise it awaits
createChannel(nn) == nn.conn.__resource

\* the broker connection r is open
alive(nn, r) ==
    /\ r \in SeqIds
    /\ nn.conn.res[r].made
    /\ ~nn.conn.res[r].lost
    /\ nn.conn.res[r].closed = 0

\* handlers that share the error field of the Connection's handler
installShared(nn, k, hNew) ==
    IF k = "conn" THEN [nn EXCEPT !.conn = hNew]
    ELSE [nn EXCEPT ![k] = hNew,
                    !.conn.__err = hNew.__err,
                    !.dep[k] = [s \in SeqIds |->
                                   IF hNew.att[s].calls > nn[k].att[s].calls
                                   THEN createChannel(nn) ELSE @[s]],
                    !.phase = IF k = "sub"
                              THEN [s \in SeqIds |->
                                       IF hNew.att[s].calls > nn[k].att[s].calls
                                       THEN "createChannel" ELSE @[s]]
                              ELSE @]

\* the handler of k becomes hNew; each factory invocation made on the way has
\* called conn.createChannel()
install(nn, k, hNew) ==
    IF k = "conn" THEN [nn EXCEPT !.conn = hNew]
    ELSE [nn EXCEPT ![k] = hNew,
                    !.dep[k] = [s \in SeqIds |->
                                   IF hNew.att[s].calls > nn[k].att[s].calls
                                   THEN createChannel(nn) ELSE @[s]],
                    !.phase = IF k = "sub"
                              THEN [s \in SeqIds |->
                                       IF hNew.att[s].calls > nn[k].att[s].calls
                                       THEN "createChannel" ELSE @[s]]
                              ELSE @]

\* a closer that closes the channel whatever the Connection's status
closerAlways(nn) == TRUE

\* the closer of the Sender: whether it closes the channel
closer(nn) == nn.conn.__status = Connected

\* the channel s of k is open at the broker
open(nn, k, s) ==
    /\ alive(nn, nn.from[k][s])
    /\ ~nn[k].res[s].lost
    /\ nn[k].res[s].closed = 0

\* the payloads sent: a string, a number, a boolean, undefined (a Node-RED
\* message without payload) and an object, written as its JSON text
Payloads == {[type |-> "string", value |-> "a"],
             [type |-> "number", value |-> "1"],
             [type |-> "boolean", value |-> "true"],
             [type |-> "undefined", value |-> "undefined"],
             [type |-> "object", value |-> "{\"a\":1}"]}

\* JSON.stringify of a payload: a string is quoted, undefined gives undefined
\* and no text
stringify(payload) ==
    IF payload.type = "undefined" THEN [defined |-> FALSE, text |-> <<>>]
    ELSE IF payload.type = "string"
    THEN [defined |-> TRUE, text |-> <<"\"", payload.value, "\"">>]
    ELSE [defined |-> TRUE, text |-> <<payload.value>>]

\* Buffer.from(json, 'utf8') throws a TypeError when json is undefined
BufferFromThrows(json) == ~json.defined

\* the calls of Sender.send made: topic, payload, options
SendCalls ==
    {[topic |-> "k1", payload |-> [type |-> "string", value |-> "a"],
      options |-> "none"],
     [topic |-> "k2", payload |-> [type |-> "number", value |-> "1"],
      options |-> "persistent"],
     [topic |-> "k1", payload |-> [type |-> "boolean", value |-> "true"],
      options |-> "persistent"],
     [topic |-> "k2", payload |-> [type |-> "undefined", value |-> "undefined"],
      options |-> "none"]}

NoCall == [topic |-> None, payload |-> [type |-> None, value |-> None],
           options |-> None]

\* what a call of send settles to
Resolved(value) == [settled |-> "resolved", value |-> value]
RejectedSend == [settled |-> "rejected", value |-> FALSE]

NoSend == [call |-> NoCall, publishes |-> <<>>,
           result |-> [settled |-> None, value |-> FALSE]]

\* Sender.send once the slot of the handler has settled.  The arguments of
\* publish are evaluated first; publish throws on a channel that is not open
\* and returns ok otherwise.  publishes holds the calls of publish made.
send(nn, call, ok) ==
    LET json == stringify(call.payload)
        ch == nn.snd.__resource
    IN  IF resource(nn.snd) # "resource" \/ BufferFromThrows(json)
        THEN [nn EXCEPT !.sent = [call |-> call, publishes |-> <<>>,
                                  result |-> RejectedSend]]
        ELSE LET threw == ~open(nn, "snd", ch)
             IN  [nn EXCEPT !.sent =
                     [call |-> call,
                      publishes |-> <<[channel |-> ch,
                                       exchange |-> Exchange,
                                       routingKey |-> call.topic,
                                       content |-> json.text,
                                       options |-> call.options,
                                       threw |-> threw,
                                       returned |-> ok /\ ~threw]>>,
                      result |-> IF threw THEN RejectedSend ELSE Resolved(ok)]]

\* a delivery without message: the broker cancelled the consumer
NullMsg == [routingKey |-> "null", content |-> "null"]

Msgs == {[routingKey |-> "k1", content |-> "p1"],
         [routingKey |-> "k2", content |-> "p2"]}

\* a callback that emits whatever it is given
onMessageUnchecked(nn, msg) ==
    [nn EXCEPT !.delivered = Append(@, msg), !.messages = Append(@, msg)]

\* the callback the Subscriber's factory hands to consume
onMessage(nn, msg) ==
    IF msg # NullMsg
    THEN [nn EXCEPT !.delivered = Append(@, msg), !.messages = Append(@, msg)]
    ELSE [nn EXCEPT !.delivered = Append(@, msg)]

\* a consume that asks for acknowledgements
consumeManualAck(nn, s) ==
    [nn EXCEPT !.consumers[s] = Append(@, [queue |-> Queue, noAck |-> FALSE])]

\* ch.consume(queue, callback, {noAck: true}) of the Subscriber's factory
consume(nn, s) ==
    [nn EXCEPT !.consumers[s] = Append(@, [queue |-> Queue, noAck |-> TRUE])]

\* opts.eventBindings of the handler of k: neither the Connection nor the
\* Sender passes the option, the Subscriber passes no options at all
eventBindings(k) == {}

BrokerEvents == {"blocked", "unblocked"}

\* the broker connection emits ev: the listeners that __subscribe registered
\* for the bound events emit it again on the handler
onBrokerEvent(nn, ev) ==
    [nn EXCEPT !.emitted = Append(@, ev),
               !.forwarded = IF ev \in eventBindings("conn")
                             THEN Append(@, ev) ELSE @]

\* pool.open, new Sender, new Subscriber
NewNode(listens, parts) ==
    LET conn == New(listens)
    IN  [parts |-> parts,
         faults |-> 0,
         conn |-> conn,
         snd |-> New(TRUE),
         sub |-> New(TRUE),
         dep |-> [k \in Channels |-> [s \in SeqIds |->
                     IF s = 1 THEN conn.__resource ELSE Rejected]],
         from |-> [k \in Channels |-> [s \in SeqIds |-> NoConnection]],
         phase |-> [s \in SeqIds |-> "createChannel"],
         consumers |-> [s \in SeqIds |-> <<>>],
         sent |-> NoSend,
         delivered |-> <<>>,
         messages |-> <<>>,
         emitted |-> <<>>,
         forwarded |-> <<>>]

----------------------------------------------------------------------------
(* pool.ts.  A settings object is the sequence of its fields in the order   *)
(* they were written; a Connection made by the pool is a number.  The pool  *)
(* is the record                                                            *)
(*   POOL     the object POOL: for each hash the Connection, or NoConn      *)
(*   made     the Connections made so far, with the settings of each        *)
(*   closing  the Connections a call of close awaits                        *)
(*   closed   for each Connection the calls of its close()                  *)
(*   done     the Connections whose close() has settled                     *)
(*   ops      the calls made, in order: the Connection each returned or     *)
(*            found, and whether it returned, resolved at once or awaits    *)

field(key, value) == [key |-> key, value |-> value]

\* the settings the server nodes hand to the pool: the second differs from
\* the first in the order of its fields, the third in the password, the
\* fourth in the host
SettingsObjects ==
    {<<field("host", "a"), field("password", "p"), field("username", "u")>>,
     <<field("username", "u"), field("password", "p"), field("host", "a")>>,
     <<field("host", "a"), field("password", "q"), field("username", "u")>>,
     <<field("host", "b"), field("password", "p"), field("username", "u")>>}

Fields(settings) == {settings[i] : i \in 1..Len(settings)}

\* the keys of a settings object, sorted
SortedKeys == <<"host", "password", "username">>

valueOf(settings, key) ==
    (CHOOSE f \in Fields(settings) : f.key = key).value

\* a hash that writes the fields in the order it meets them
toHashOrdered(settings) == settings

\* object-hash with its default options: the keys are sorted, each key and
\* value is written with its type, and the digest of that text is the hash;
\* the text stands for its digest
toHash(settings) ==
    [i \in 1..Len(SortedKeys) |->
        field(SortedKeys[i], valueOf(settings, SortedKeys[i]))]

Hashes == {toHash(settings) : settings \in SettingsObjects}

NoConn == 0

Conns == 1..MaxOps

NewPool ==
    [POOL |-> [hash \in Hashes |-> NoConn],
     made |-> <<>>,
     closing |-> <<>>,
     closed |-> [c \in Conns |-> 0],
     done |-> {},
     ops |-> <<>>]

\* open(settings) of pool.ts
poolOpen(pp, settings) ==
    LET hash == toHash(settings)
        conn == pp.POOL[hash]
    IN  IF conn = NoConn
        THEN LET new == Len(pp.made) + 1
             IN  [pp EXCEPT !.made = Append(@, settings),
                            !.POOL[hash] = new,
                            !.ops = Append(@, [op |-> "open", settings |-> settings,
                                               conn |-> new, result |-> "returned"])]
        ELSE [pp EXCEPT !.ops = Append(@, [op |-> "open", settings |-> settings,
                                           conn |-> conn, result |-> "returned"])]

\* a close that leaves the entry in the pool
poolCloseKeepsEntry(pp, settings) ==
    LET hash == toHash(settings)
        conn == pp.POOL[hash]
    IN  IF conn = NoConn
        THEN [pp EXCEPT !.ops = Append(@, [op |-> "close", settings |-> settings,
                                           conn |-> NoConn, result |-> "resolved"])]
        ELSE [pp EXCEPT !.closing = Append(@, conn),
                        !.ops = Append(@, [op |-> "close", settings |-> settings,
                                           conn |-> conn, result |-> "awaits"])]

\* a close that closes the Connection made last when the pool has no entry
poolCloseAny(pp, settings) ==
    LET hash == toHash(settings)
        conn == pp.POOL[hash]
    IN  IF conn = NoConn
        THEN [pp EXCEPT !.closing = IF pp.made = <<>> THEN @
                                    ELSE Append(@, Len(pp.made)),
                        !.ops = Append(@, [op |-> "close", settings |-> settings,
                                           conn |-> NoConn, result |-> "resolved"])]
        ELSE [pp EXCEPT !.POOL[hash] = NoConn,
                        !.closing = Append(@, conn),
                        !.ops = Append(@, [op |-> "close", settings |-> settings,
                                           conn |-> conn, result |-> "awaits"])]

\* close(settings) of pool.ts up to its await
poolClose(pp, settings) ==
    LET hash == toHash(settings)
        conn == pp.POOL[hash]
    IN  IF conn = NoConn
        THEN [pp EXCEPT !.ops = Append(@, [op |-> "close", settings |-> settings,
                                           conn |-> NoConn, result |-> "resolved"])]
        ELSE [pp EXCEPT !.POOL[hash] = NoConn,
                        !.closing = Append(@, conn),
                        !.ops = Append(@, [op |-> "close", settings |-> settings,
                                           conn |-> conn, result |-> "awaits"])]

\* close(settings) of pool.ts after its await: conn.close()
poolCloseResume(pp) ==
    [pp EXCEPT !.closing = Tail(@), !.closed[pp.closing[1]] = @ + 1]

----------------------------------------------------------------------------
(* Listeners.  The listeners of an EventEmitter are a sequence of records   *)
(* [event, handler, once], in the order they were added.                    *)

on(ls, event, handler) ==
    Append(ls, [event |-> event, handler |-> handler, once |-> FALSE])

once(ls, event, handler) ==
    Append(ls, [event |-> event, handler |-> handler, once |-> TRUE])

\* the calls of handler that k emits of event make: an emit calls every
\* listener of the event and removes those added with once
RECURSIVE calls(_, _, _, _)
calls(ls, event, handler, k) ==
    IF k = 0 THEN 0
    ELSE Cardinality({i \in 1..Len(ls) :
                         ls[i].event = event /\ ls[i].handler = handler})
         + calls(SelectSeq(ls, LAMBDA l : ~(l.event = event /\ l.once)),
                 event, handler, k - 1)

\* Connection.once
ConnectionOnce(ls, event, handler) == once(ls, event, handler)

\* Sender.once and Subscriber.once
SubscriberOnce(ls, event, handler) == on(ls, event, handler)

\* the promise close() of the part k returns, c being the promise of the
\* close() of its handler: Connection.close returns c, Sender.close and
\* Subscriber.close call the handler's close() and return without it
closePromise(k, c) == IF k = "conn" THEN c ELSE [c EXCEPT !.st = "ok"]

----------------------------------------------------------------------------
(* The nodes amqp-out and amqp-in.  io is the record                        *)
(*   stage       where the message is                                       *)
(*   routingkey  props.routingkey of the amqp-out node, "" when not set     *)
(*   inkey       props.routingkey of the amqp-in node, "" when not set      *)
(*   msg         the message the amqp-out node is given                     *)
(*   args        the arguments of sender.send                               *)
(*   message     the message the broker delivers, as the 'message' event    *)
(*               of the Subscriber carries it                               *)
(*   out         the message the amqp-in node sends on                      *)

\* the messages amqp-out is given
NodeMsgs ==
    [payload : Payloads, topic : {"k1", "k2"}, options : {"none", "persistent"}]

\* a || b for strings
or(a, b) == IF a # "" THEN a ELSE b

\* the 'input' listener of amqp-out: the arguments it calls sender.send with
outInput(routingkey, msg) ==
    [topic |-> or(routingkey, msg.topic),
     payload |-> msg.payload,
     options |-> msg.options]

\* the message a consumer of the queue gets for a publish
ConsumeMessage(args) ==
    [routingKey |-> args.topic, content |-> stringify(args.payload).text]

\* msg.content.toString('utf8'): a string
toString(content) == [type |-> "string", text |-> content]

\* the 'message' listener of amqp-in: the message it sends on
inMessage(routingkey, message) ==
    [topic |-> or(routingkey, message.routingKey),
     payload |-> toString(message.content)]

NewIo ==
    [stage |-> "idle", routingkey |-> "", inkey |-> "",
     msg |-> NoCall, args |-> NoCall,
     message |-> [routingKey |-> None, content |-> <<>>],
     out |-> [topic |-> None, payload |-> [type |-> None, text |-> <<>>]]]

----------------------------------------------------------------------------
(* The retry options.  An option is [given, value]: opts?.retry?.x is       *)
(* undefined when not given.  bo is the record                              *)
(*   opts      the options the constructor is called with                   *)
(*   retry     this.__opts.retry                                            *)
(*   timeouts  the waits retry(...) computes from them                      *)
(*   fails     the failures of the factory still to come                    *)
(*   waits     the waits made so far                                        *)
(*   stage     "new", "running", "threw", "resolved" or "rejected"          *)

\* Infinity, as the largest number the checker has
Infinity == 2147483647

NotGiven == [given |-> FALSE, value |-> 0]

Given(v) == [given |-> TRUE, value |-> v]

RetryOptions ==
    [retries : {NotGiven, Given(2)},
     minTimeout : {NotGiven, Given(0), Given(10)},
     maxTimeout : {NotGiven, Given(30), Given(8000)},
     factor : {NotGiven, Given(1), Given(2)}]

\* opt || default: undefined and 0 are falsy
orDefault(opt, default) ==
    IF opt.given /\ opt.value # 0 THEN opt.value ELSE default

\* the retry options of the constructor
retryOpts(opts) ==
    [retries |-> orDefault(opts.retries, 10),
     minTimeout |-> orDefault(opts.minTimeout, 5000),
     maxTimeout |-> orDefault(opts.maxTimeout, Infinity),
     factor |-> orDefault(opts.factor, 2)]

RECURSIVE pow(_, _)
pow(b, e) == IF e = 0 THEN 1 ELSE b * pow(b, e - 1)

\* retry.timeouts with randomize false: one wait per retry
timeouts(r) ==
    [i \in 1..r.retries |->
        LET t == r.minTimeout * pow(r.factor, i - 1)
        IN  IF t < r.maxTimeout THEN t ELSE r.maxTimeout]

NewBackoff ==
    [stage |-> "new", opts |-> [retries |-> NotGiven, minTimeout |-> NotGiven,
                                maxTimeout |-> NotGiven, factor |-> NotGiven],
     retry |-> [retries |-> 0, minTimeout |-> 0, maxTimeout |-> 0, factor |-> 0],
     timeouts |-> <<>>, fails |-> 0, waits |-> <<>>]

----------------------------------------------------------------------------
(* The event loop *)

MicrotaskReady(hh) ==
    \/ \E p \in Promises : hh.stc[p] > 0 /\ Settled(hh, p)
    \/ \E i \in 1..Len(hh.closes) :
          hh.closes[i].st = "wait" /\ Settled(hh, hh.closes[i].on)

\* a task starts when the microtasks and the nextTick callbacks have run
Task == ~h.crashed /\ ~MicrotaskReady(h) /\ h.ticks = <<>>

Init ==
    /\ \E listens \in BOOLEAN : h = New(listens)
    /\ n = NewNode(FALSE, {})
    /\ pool = NewPool
    /\ bo = NewBackoff
    /\ io = NewIo

FactoryResolve(s) ==
    /\ Task
    /\ h.att[s].st = "factory"
    /\ h' = thenHandler(h, s)
    /\ UNCHANGED <<n, pool, io, bo>>

FactoryReject(s, e) ==
    /\ Task
    /\ h.att[s].st = "factory"
    /\ e \in FailureMsgs(h.att[s].errs)
    /\ h' = factoryRejected(h, s, e)
    /\ UNCHANGED <<n, pool, io, bo>>

BackoffFire(s) ==
    /\ Task
    /\ h.att[s].st = "backoff"
    /\ h' = retryInput(h, s)
    /\ UNCHANGED <<n, pool, io, bo>>

ResourceEmitsError(r) ==
    /\ Task
    /\ h.res[r].subscribed
    /\ h' = onResourceError(h, r)
    /\ UNCHANGED <<n, pool, io, bo>>

ResourceEmitsClose(r) ==
    /\ Task
    /\ h.res[r].subscribed
    /\ (~h.isReconnecting /\ h.__status = Error) => CanStart(h)
    /\ h' = onResourceClose(h, r)
    /\ UNCHANGED <<n, pool, io, bo>>

ReconnectDelayFire ==
    /\ Task
    /\ h.delay
    /\ CanStart(h)
    /\ h' = __handleReconnectResume(h)
    /\ UNCHANGED <<n, pool, io, bo>>

Close ==
    /\ Task
    /\ Len(h.closes) < MaxClose
    /\ h' = close(h)
    /\ UNCHANGED <<n, pool, io, bo>>

Connect ==
    /\ Task
    /\ h.__status = Error => CanStart(h)
    /\ h' = connect(h)
    /\ UNCHANGED <<n, pool, io, bo>>

CloseResume(i) ==
    /\ ~h.crashed
    /\ i <= Len(h.closes)
    /\ h.closes[i].st = "wait"
    /\ Settled(h, h.closes[i].on)
    /\ h' = closeResume(h, i)
    /\ UNCHANGED <<n, pool, io, bo>>

SetToCloseResume(p) ==
    /\ ~h.crashed
    /\ h.stc[p] > 0
    /\ Settled(h, p)
    /\ h' = __setToCloseResume(h, p)
    /\ UNCHANGED <<n, pool, io, bo>>

StatusTick ==
    /\ ~h.crashed
    /\ ~MicrotaskReady(h)
    /\ h.ticks # <<>>
    /\ h' = statusTicks(h)
    /\ UNCHANGED <<n, pool, io, bo>>

Next ==
    \/ \E s \in SeqIds : FactoryResolve(s)
    \/ \E s \in SeqIds, e \in ErrMsgs : FactoryReject(s, e)
    \/ \E s \in SeqIds : BackoffFire(s)
    \/ \E r \in SeqIds : ResourceEmitsError(r)
    \/ \E r \in SeqIds : ResourceEmitsClose(r)
    \/ ReconnectDelayFire
    \/ Close
    \/ Connect
    \/ \E i \in 1..MaxClose : CloseResume(i)
    \/ \E p \in Promises : SetToCloseResume(p)
    \/ StatusTick

Spec == Init /\ [][Next]_vars

\* the handler whose user never calls close()
NextUnclosed ==
    \/ \E s \in SeqIds : FactoryResolve(s)
    \/ \E s \in SeqIds, e \in ErrMsgs : FactoryReject(s, e)
    \/ \E s \in SeqIds : BackoffFire(s)
    \/ \E r \in SeqIds : ResourceEmitsError(r)
    \/ \E r \in SeqIds : ResourceEmitsClose(r)
    \/ ReconnectDelayFire
    \/ Connect
    \/ \E p \in Promises : SetToCloseResume(p)
    \/ StatusTick

SpecUnclosed == Init /\ [][NextUnclosed]_vars

----------------------------------------------------------------------------
(* The event loop of a node: the handlers share the process *)

NodeTask ==
    \A k \in n.parts :
        ~n[k].crashed /\ ~MicrotaskReady(n[k]) /\ n[k].ticks = <<>>

NoCrash == \A k \in n.parts : ~n[k].crashed

CanFail == n.faults < MaxFaults

fault(nn) == [nn EXCEPT !.faults = @ + 1]

\* amqp.connect resolves
ConnOpened(s) ==
    /\ n.conn.att[s].st = "factory"
    /\ NodeTask
    /\ n' = install(n, "conn", thenHandler(n.conn, s))
    /\ UNCHANGED <<h, pool, io, bo>>

\* amqp.connect rejects
ConnRefused(s) ==
    /\ n.conn.att[s].st = "factory"
    /\ CanFail
    /\ NodeTask
    /\ n' = fault(install(n, "conn", factoryRejected(n.conn, s, "e1")))
    /\ UNCHANGED <<h, pool, io, bo>>

\* conn.createChannel() resolves for the Sender's factory
SenderChannelOpened(s) ==
    /\ n.snd.att[s].st = "factory"
    /\ alive(n, n.dep.snd[s])
    /\ NodeTask
    /\ n' = [install(n, "snd", thenHandler(n.snd, s))
                EXCEPT !.from.snd[s] = n.dep.snd[s]]
    /\ UNCHANGED <<h, pool, io, bo>>

\* conn.createChannel() rejects: no connection to be had, or the broker refuses
ChannelRefused(k, s) ==
    /\ n[k].att[s].st = "factory"
    /\ k = "sub" => n.phase[s] = "createChannel"
    /\ Settled(n.conn, n.dep[k][s])
    /\ CanFail
    /\ NodeTask
    /\ n' = fault(install(n, k, factoryRejected(n[k], s, "e1")))
    /\ UNCHANGED <<h, pool, io, bo>>

NodeBackoffFire(k, s) ==
    /\ n[k].att[s].st = "backoff"
    /\ NodeTask
    /\ n' = install(n, k, retryInput(n[k], s))
    /\ UNCHANGED <<h, pool, io, bo>>

NodeResourceEmitsError(k, r) ==
    /\ n[k].res[r].subscribed
    /\ CanFail
    /\ NodeTask
    /\ n' = fault(install(n, k, onResourceError(n[k], r)))
    /\ UNCHANGED <<h, pool, io, bo>>

NodeResourceEmitsClose(k, r) ==
    /\ n[k].res[r].subscribed
    /\ (~n[k].isReconnecting /\ n[k].__status = Error) => CanStart(n[k])
    /\ CanFail
    /\ NodeTask
    /\ n' = fault(install(n, k, onResourceClose(n[k], r)))
    /\ UNCHANGED <<h, pool, io, bo>>

NodeReconnectDelayFire(k) ==
    /\ n[k].delay
    /\ CanStart(n[k])
    /\ NodeTask
    /\ n' = install(n, k, __handleReconnectResume(n[k]))
    /\ UNCHANGED <<h, pool, io, bo>>

\* a close of a Sender or Subscriber that closes its Connection as well
NodeCloseOwning(k) ==
    /\ n[k].closes = <<>>
    /\ NodeTask
    /\ n' = IF k = "conn" THEN install(n, k, close(n[k]))
            ELSE install(install(n, k, close(n[k])), "conn", close(n.conn))
    /\ UNCHANGED <<h, pool, io, bo>>

\* Connection.close, Sender.close, Subscriber.close
NodeClose(k) ==
    /\ n[k].closes = <<>>
    /\ NodeTask
    /\ n' = install(n, k, close(n[k]))
    /\ UNCHANGED <<h, pool, io, bo>>

NodeCloseResume(k) ==
    /\ Len(n[k].closes) = 1
    /\ n[k].closes[1].st = "wait"
    /\ Settled(n[k], n[k].closes[1].on)
    /\ NoCrash
    /\ n' = install(n, k, IF k = "snd"
                          THEN closeResumeWithCloser(n.snd, 1, closer(n))
                          ELSE closeResume(n[k], 1))
    /\ UNCHANGED <<h, pool, io, bo>>

NodeSetToCloseResume(k, p) ==
    /\ n[k].stc[p] > 0
    /\ Settled(n[k], p)
    /\ NoCrash
    /\ n' = install(n, k, __setToCloseResume(n[k], p))
    /\ UNCHANGED <<h, pool, io, bo>>

\* the queue of process.nextTick is one for the process and is run to its end
NodeStatusTick ==
    /\ NoCrash
    /\ \E k \in n.parts : n[k].ticks # <<>>
    /\ \A j \in n.parts : ~MicrotaskReady(n[j])
    /\ n' = [k \in DOMAIN n |->
                IF k \in n.parts /\ n[k].ticks # <<>> THEN statusTicks(n[k]) ELSE n[k]]
    /\ UNCHANGED <<h, pool, io, bo>>

\* conn.createChannel() resolves for the Subscriber's factory, which goes on
\* to call consume
SubscriberChannelOpened(s) ==
    /\ n.sub.att[s].st = "factory"
    /\ n.phase[s] = "createChannel"
    /\ alive(n, n.dep.sub[s])
    /\ NodeTask
    /\ n' = [n EXCEPT !.from.sub[s] = n.dep.sub[s], !.phase[s] = "consume"]
    /\ UNCHANGED <<h, pool, io, bo>>

\* consume resolves: the factory returns the channel
ConsumeOk(s) ==
    /\ n.sub.att[s].st = "factory"
    /\ n.phase[s] = "consume"
    /\ alive(n, n.from.sub[s])
    /\ NodeTask
    /\ n' = install(consume(n, s), "sub", thenHandler(n.sub, s))
    /\ UNCHANGED <<h, pool, io, bo>>

\* consume rejects: so does the factory
ConsumeFails(s) ==
    /\ n.sub.att[s].st = "factory"
    /\ n.phase[s] = "consume"
    /\ CanFail
    /\ NodeTask
    /\ n' = fault(install(n, "sub", factoryRejected(n.sub, s, "e1")))
    /\ UNCHANGED <<h, pool, io, bo>>

\* the broker delivers to the consumer of the channel s
Deliver(s, msg) ==
    /\ n.consumers[s] # <<>>
    /\ open(n, "sub", s)
    /\ Len(n.delivered) < MaxMsgs
    /\ NodeTask
    /\ n' = onMessage(n, msg)
    /\ UNCHANGED <<h, pool, io, bo>>

\* Sender.send, as its await of the handler's slot is over
Send(call, ok) ==
    /\ Settled(n.snd, n.snd.__resource)
    /\ NodeTask
    /\ n' = send(n, call, ok)
    /\ UNCHANGED <<h, pool, io, bo>>

\* a Connection and a Sender
SenderParts == {"conn", "snd"}

InitSender ==
    /\ h = New(TRUE)
    /\ \E listens \in BOOLEAN : n = NewNode(listens, SenderParts)
    /\ pool = NewPool
    /\ bo = NewBackoff
    /\ io = NewIo

NextSender ==
    \/ \E s \in SeqIds : ConnOpened(s)
    \/ \E s \in SeqIds : ConnRefused(s)
    \/ \E s \in SeqIds : SenderChannelOpened(s)
    \/ \E s \in SeqIds : ChannelRefused("snd", s)
    \/ \E k \in SenderParts, s \in SeqIds : NodeBackoffFire(k, s)
    \/ \E k \in SenderParts, r \in SeqIds : NodeResourceEmitsError(k, r)
    \/ \E k \in SenderParts, r \in SeqIds : NodeResourceEmitsClose(k, r)
    \/ \E k \in SenderParts : NodeReconnectDelayFire(k)
    \/ \E k \in SenderParts : NodeClose(k)
    \/ \E k \in SenderParts : NodeCloseResume(k)
    \/ \E k \in SenderParts, p \in Promises : NodeSetToCloseResume(k, p)
    \/ NodeStatusTick
    \/ \E call \in SendCalls, ok \in BOOLEAN : Send(call, ok)

SpecSender == InitSender /\ [][NextSender]_vars

\* a Connection and a Subscriber
SubscriberParts == {"conn", "sub"}

InitSubscriber ==
    /\ h = New(TRUE)
    /\ \E listens \in BOOLEAN : n = NewNode(listens, SubscriberParts)
    /\ pool = NewPool
    /\ bo = NewBackoff
    /\ io = NewIo

NextSubscriber ==
    \/ \E s \in SeqIds : ConnOpened(s)
    \/ \E s \in SeqIds : ConnRefused(s)
    \/ \E s \in SeqIds : SubscriberChannelOpened(s)
    \/ \E s \in SeqIds : ChannelRefused("sub", s)
    \/ \E s \in SeqIds : ConsumeOk(s)
    \/ \E s \in SeqIds : ConsumeFails(s)
    \/ \E k \in SubscriberParts, s \in SeqIds : NodeBackoffFire(k, s)
    \/ \E k \in SubscriberParts, r \in SeqIds : NodeResourceEmitsError(k, r)
    \/ \E k \in SubscriberParts, r \in SeqIds : NodeResourceEmitsClose(k, r)
    \/ \E k \in SubscriberParts : NodeReconnectDelayFire(k)
    \/ \E k \in SubscriberParts : NodeClose(k)
    \/ \E k \in SubscriberParts : NodeCloseResume(k)
    \/ \E k \in SubscriberParts, p \in Promises : NodeSetToCloseResume(k, p)
    \/ NodeStatusTick
    \/ \E s \in SeqIds, msg \in Msgs \cup {NullMsg} : Deliver(s, msg)

SpecSubscriber == InitSubscriber /\ [][NextSubscriber]_vars

\* a Connection, a Sender and a Subscriber
InitNode ==
    /\ h = New(TRUE)
    /\ \E listens \in BOOLEAN : n = NewNode(listens, Handlers)
    /\ pool = NewPool
    /\ bo = NewBackoff
    /\ io = NewIo

NextNode ==
    \/ \E s \in SeqIds : ConnOpened(s)
    \/ \E s \in SeqIds : ConnRefused(s)
    \/ \E s \in SeqIds : SenderChannelOpened(s)
    \/ \E s \in SeqIds : SubscriberChannelOpened(s)
    \/ \E k \in Channels, s \in SeqIds : ChannelRefused(k, s)
    \/ \E s \in SeqIds : ConsumeOk(s)
    \/ \E s \in SeqIds : ConsumeFails(s)
    \/ \E k \in Handlers, s \in SeqIds : NodeBackoffFire(k, s)
    \/ \E k \in Handlers, r \in SeqIds : NodeResourceEmitsError(k, r)
    \/ \E k \in Handlers, r \in SeqIds : NodeResourceEmitsClose(k, r)
    \/ \E k \in Handlers : NodeReconnectDelayFire(k)
    \/ \E k \in Handlers : NodeClose(k)
    \/ \E k \in Handlers : NodeCloseResume(k)
    \/ \E k \in Handlers, p \in Promises : NodeSetToCloseResume(k, p)
    \/ NodeStatusTick

SpecNode == InitNode /\ [][NextNode]_vars

\* the broker connection the Connection holds emits 'blocked' or 'unblocked'
BrokerEmits(ev) ==
    /\ n.conn.__resource \in SeqIds
    /\ n.conn.res[n.conn.__resource].subscribed
    /\ Len(n.emitted) < MaxEvents
    /\ NodeTask
    /\ n' = onBrokerEvent(n, ev)
    /\ UNCHANGED <<h, pool, io, bo>>

\* a Connection on its own, as the server node makes it
ConnectionParts == {"conn"}

InitConnection ==
    /\ h = New(TRUE)
    /\ \E listens \in BOOLEAN : n = NewNode(listens, ConnectionParts)
    /\ pool = NewPool
    /\ bo = NewBackoff
    /\ io = NewIo

NextConnection ==
    \/ \E s \in SeqIds : ConnOpened(s)
    \/ \E s \in SeqIds : ConnRefused(s)
    \/ \E s \in SeqIds : NodeBackoffFire("conn", s)
    \/ \E r \in SeqIds : NodeResourceEmitsError("conn", r)
    \/ \E r \in SeqIds : NodeResourceEmitsClose("conn", r)
    \/ NodeReconnectDelayFire("conn")
    \/ NodeClose("conn")
    \/ NodeCloseResume("conn")
    \/ \E p \in Promises : NodeSetToCloseResume("conn", p)
    \/ NodeStatusTick
    \/ \E ev \in BrokerEvents : BrokerEmits(ev)

SpecConnection == InitConnection /\ [][NextConnection]_vars

----------------------------------------------------------------------------
(* A message through amqp-out, the broker and amqp-in *)

\* amqp-out gets the message
OutInput ==
    /\ io.stage = "input"
    /\ io' = [io EXCEPT !.stage = "send", !.args = outInput(io.routingkey, io.msg)]
    /\ UNCHANGED <<h, n, pool, bo>>

\* Sender.send on an open channel: the content is made and published
SenderPublishes ==
    /\ io.stage = "send"
    /\ ~BufferFromThrows(stringify(io.args.payload))
    /\ io' = [io EXCEPT !.stage = "published"]
    /\ UNCHANGED <<h, n, pool, bo>>

\* Sender.send rejects: amqp-out reports the error
SenderRejects ==
    /\ io.stage = "send"
    /\ BufferFromThrows(stringify(io.args.payload))
    /\ io' = [io EXCEPT !.stage = "failed"]
    /\ UNCHANGED <<h, n, pool, bo>>

\* the broker delivers to the Subscriber, which emits 'message'
BrokerDelivers ==
    /\ io.stage = "published"
    /\ io' = [io EXCEPT !.stage = "message", !.message = ConsumeMessage(io.args)]
    /\ UNCHANGED <<h, n, pool, bo>>

\* amqp-in sends the message on
InMessage ==
    /\ io.stage = "message"
    /\ io' = [io EXCEPT !.stage = "out", !.out = inMessage(io.inkey, io.message)]
    /\ UNCHANGED <<h, n, pool, bo>>

InitIo ==
    /\ h = New(TRUE)
    /\ n = NewNode(FALSE, {})
    /\ pool = NewPool
    /\ bo = NewBackoff
    /\ \E msg \in NodeMsgs, routingkey \in {"", "r"}, inkey \in {"", "r"} :
          io = [NewIo EXCEPT !.stage = "input", !.msg = msg,
                             !.routingkey = routingkey, !.inkey = inkey]

NextIo ==
    \/ OutInput
    \/ SenderPublishes
    \/ SenderRejects
    \/ BrokerDelivers
    \/ InMessage

SpecIo == InitIo /\ [][NextIo]_vars

----------------------------------------------------------------------------
(* The waits of one acquisition *)

\* new ResourceHandler(factory, {retry: opts}) and its call of retry(...)
Construct ==
    /\ bo.stage = "new"
    /\ LET r == retryOpts(bo.opts)
           \* retry.timeouts throws when minTimeout > maxTimeout
           throws == r.minTimeout > r.maxTimeout
       IN  bo' = [bo EXCEPT !.retry = r,
                            !.stage = IF throws THEN "threw" ELSE "running",
                            !.timeouts = IF throws THEN <<>> ELSE timeouts(r)]
    /\ UNCHANGED <<h, n, pool, io>>

\* the factory fails and retries are left: the next call is made after the
\* next wait
FailsAndWaits ==
    /\ bo.stage = "running"
    /\ bo.fails > 0
    /\ Len(bo.waits) < Len(bo.timeouts)
    /\ bo' = [bo EXCEPT !.fails = @ - 1,
                        !.waits = Append(@, bo.timeouts[Len(bo.waits) + 1])]
    /\ UNCHANGED <<h, n, pool, io>>

\* the factory fails and no retry is left
FailsLast ==
    /\ bo.stage = "running"
    /\ bo.fails > 0
    /\ Len(bo.waits) = Len(bo.timeouts)
    /\ bo' = [bo EXCEPT !.fails = @ - 1, !.stage = "rejected"]
    /\ UNCHANGED <<h, n, pool, io>>

\* the factory succeeds
Succeeds ==
    /\ bo.stage = "running"
    /\ bo.fails = 0
    /\ bo' = [bo EXCEPT !.stage = "resolved"]
    /\ UNCHANGED <<h, n, pool, io>>

InitBackoff ==
    /\ h = New(TRUE)
    /\ n = NewNode(FALSE, {})
    /\ pool = NewPool
    /\ io = NewIo
    /\ \E opts \in RetryOptions, fails \in 0..MaxFails :
          bo = [NewBackoff EXCEPT !.opts = opts, !.fails = fails]

NextBackoff ==
    \/ Construct
    \/ FailsAndWaits
    \/ FailsLast
    \/ Succeeds

SpecBackoff == InitBackoff /\ [][NextBackoff]_vars

----------------------------------------------------------------------------
(* The pool and its users *)

\* a server node is created: open(this.settings)
Open(settings) ==
    /\ pool.closing = <<>>
    /\ Len(pool.ops) < MaxOps
    /\ pool' = poolOpen(pool, settings)
    /\ UNCHANGED <<h, n, io, bo>>

\* a server node is closed: close(this.settings)
PoolClose(settings) ==
    /\ pool.closing = <<>>
    /\ Len(pool.ops) < MaxOps
    /\ pool' = poolClose(pool, settings)
    /\ UNCHANGED <<h, n, io, bo>>

\* the continuation of close's await
PoolCloseResume ==
    /\ pool.closing # <<>>
    /\ pool' = poolCloseResume(pool)
    /\ UNCHANGED <<h, n, io, bo>>

\* the close() of a Connection settles, some time after it was called
CloseSettles(c) ==
    /\ pool.closing = <<>>
    /\ pool.closed[c] > 0
    /\ c \notin pool.done
    /\ pool' = [pool EXCEPT !.done = @ \cup {c}]
    /\ UNCHANGED <<h, n, io, bo>>

InitPool ==
    /\ h = New(TRUE)
    /\ n = NewNode(FALSE, {})
    /\ pool = NewPool
    /\ bo = NewBackoff
    /\ io = NewIo

NextPool ==
    \/ \E settings \in SettingsObjects : Open(settings)
    \/ \E settings \in SettingsObjects : PoolClose(settings)
    \/ PoolCloseResume
    \/ \E c \in Conns : CloseSettles(c)

SpecPool == InitPool /\ [][NextPool]_vars

----------------------------------------------------------------------------
(* Shape of the state *)

TypeOK ==
    /\ h.__status \in ResourceStatus
    /\ h.__resource \in Promises
    /\ h.isReconnecting \in BOOLEAN
    /\ h.delay \in BOOLEAN
    /\ \A s \in SeqIds :
          /\ h.att[s].st \in {"idle", "factory", "backoff", "ok", "null", "threw"}
          /\ Len(h.att[s].errs) <= Retries + 1
          /\ h.att[s].calls <= Retries + 1
    /\ Len(h.closes) <= MaxClose
    /\ h.seen \in ResourceStatus \cup {None}
    /\ \A i \in 1..Len(h.ticks) : h.ticks[i] \in ResourceStatus

\* the slot is a pending promise whenever the status is Connecting or Closing
SlotPendingWhileConnecting ==
    h.__status \in {Connecting, Closing} => Pending(h, h.__resource)

\* the loop of __handleReconnect waits for its delay exactly while the flag is set
DelayIffReconnecting == h.delay <=> h.isReconnecting

----------------------------------------------------------------------------
(* Definitions the properties below are stated with *)

RECURSIVE SumCalls(_, _)
SumCalls(hh, m) == IF m = 0 THEN 0 ELSE hh.att[m].calls + SumCalls(hh, m - 1)

\* invocations of the factory the handler has made so far
FactoryCalls(hh) == SumCalls(hh, MaxSeq)

CloseCalled(hh) == hh.closes # <<>>

\* nothing is left to run: no attempt in flight, no timer, no continuation
Quiescent(hh) ==
    /\ \A s \in SeqIds : ~Pending(hh, s)
    /\ ~hh.delay
    /\ ~MicrotaskReady(hh)
    /\ hh.ticks = <<>>

\* the task of this step is the settling of the factory's promise of s
FactoryResolved(s) ==
    h.att[s].st = "factory" /\ ~h.res[s].made /\ h'.res[s].made

\* the task of this step is the failure of s that exhausts the retry budget
Exhausted(s) ==
    /\ h.att[s].st = "factory"
    /\ Len(h.att[s].errs) = Retries
    /\ Len(h'.att[s].errs) = Retries + 1

\* k 'retry' events followed by one 'open'
RetriesThenOpen(k) == [i \in 1..(k + 1) |-> IF i <= k THEN "retry" ELSE "open"]

Occurrences(errs, m) == Cardinality({j \in 1..Len(errs) : errs[j] = m})

LastAt(errs, m) == CHOOSE j \in 1..Len(errs) :
                      errs[j] = m /\ \A k \in (j + 1)..Len(errs) : errs[k] # m

MostFrequent(errs, m) ==
    /\ Occurrences(errs, m) > 0
    /\ \A m2 \in ErrMsgs : Occurrences(errs, m2) <= Occurrences(errs, m)

\* m is the most frequent message of errs, the latest among equals
IsMainError(errs, m) ==
    /\ MostFrequent(errs, m)
    /\ \A m2 \in ErrMsgs : MostFrequent(errs, m2) => LastAt(errs, m2) <= LastAt(errs, m)

\* with an 'error' listener registered, the error stored when the budget is
\* exhausted is the one p-retry rejects with
ExhaustedStoresMainError ==
    [][\A s \in SeqIds :
          (Exhausted(s) /\ h.onError)
          => (/\ h'.__status = Error
              /\ IsMainError(h'.att[s].errs, h'.__err)
              /\ h'.att[s].st = "null")]_vars

----------------------------------------------------------------------------
(* C1: once the status is Closed, no later step sets it to another value.  *)
C1_ClosedIsTerminal ==
    [][h.__status = Closed => h'.__status = Closed]_vars

(* C2: after close() has been called on the handler, no step invokes the   *)
(* factory again.                                                          *)
C2_NoFactoryAfterClose ==
    [][CloseCalled(h) => FactoryCalls(h') = FactoryCalls(h)]_vars

(* C3: once the status is Closed and every close() has settled, resource() *)
(* fails; it also fails when the slot resolved to null; so it yields the   *)
(* resource only if the slot resolved to one and the handler is not closed.*)
C3_ResourceOnlyWhenOpen ==
    /\ (h.__status = Closed /\ \A i \in 1..Len(h.closes) : h.closes[i].st # "wait")
          => resource(h) \in {"unavailable", "rejected"}
    /\ (Settled(h, h.__resource) /\ ~Throws(h, h.__resource)
          /\ h.att[h.__resource].st = "null") => resource(h) = "unavailable"

(* C4: at most one acquisition sequence is active and at most one factory  *)
(* invocation is in flight.                                                *)
C4_OneAttemptAtATime ==
    /\ Cardinality({s \in SeqIds : Pending(h, s)}) <= 1
    /\ Cardinality({s \in SeqIds : h.att[s].st = "factory"}) <= 1

(* C5: when the resource held by a Connected handler emits error or close, *)
(* close() not having been called (and an 'error' listener being           *)
(* registered), that step sets the status to Error and emits 'error', and  *)
(* invokes no factory.                                                     *)
C5_LossMarksError ==
    [][\A r \in SeqIds :
          (/\ h.__status = Connected
           /\ h.__resource = r
           /\ h.res[r].subscribed
           /\ ~CloseCalled(h)
           /\ h.onError
           /\ h'.res[r].lost)
          => (/\ h'.__status = Error
              /\ h'.log[r] = Append(h.log[r], "error")
              /\ FactoryCalls(h') = FactoryCalls(h))]_vars

(* C6: a handler that lost a resource and was never closed does not come   *)
(* to rest broken: when no attempt is in flight, no timer is pending and   *)
(* no continuation is left to run, it is Connected and holds a resource    *)
(* that has not emitted error or close.                                    *)
C6_NeverRestsBroken ==
    (/\ \E r \in SeqIds : h.res[r].lost
     /\ ~CloseCalled(h)
     /\ h.onError
     /\ ~h.crashed
     /\ Quiescent(h))
    => (/\ h.__status = Connected
        /\ resource(h) = "resource"
        /\ ~h.res[h.__resource].lost)

(* C7: when the factory of a sequence resolves after k failures and        *)
(* close() was never called, that step sets the status to Connected and    *)
(* the events emitted for the sequence are k 'retry' followed by one       *)
(* 'open', with no 'error'.                                                *)
C7_RetriesThenOpen ==
    [][\A s \in SeqIds :
          (FactoryResolved(s) /\ ~CloseCalled(h))
          => (/\ h'.att[s].st = "ok"
              /\ Len(h.att[s].errs) <= Retries
              /\ h'.__status = Connected
              /\ h'.log[s] = RetriesThenOpen(Len(h.att[s].errs)))]_vars

C7_Witness ==
    \E s \in SeqIds :
        /\ h.att[s].st = "ok"
        /\ Len(h.att[s].errs) = Retries
        /\ ~CloseCalled(h)
        /\ h.__status = Connected
        /\ h.log[s] = RetriesThenOpen(Retries)

(* C8: the failure that exhausts the retry budget of a sequence leaves the  *)
(* status Error, the error accessor holding the last failure, one 'error'  *)
(* emitted after the 'retry' of that failure, and the slot resolved to     *)
(* null, so that resource() fails as unavailable and nothing is thrown at  *)
(* whoever awaits the slot.                                                *)
C8_ExhaustedEndsInError ==
    [][\A s \in SeqIds :
          Exhausted(s)
          => (/\ h'.__status = Error
              /\ h'.__err = h'.att[s].errs[Retries + 1]
              /\ h'.log[s] = h.log[s] \o <<"retry", "error">>
              /\ h'.att[s].st = "null"
              /\ (h'.__resource = s => resource(h') = "unavailable"))]_vars

(* C9: a second close() on the same handler never resolves: it fails with  *)
(* AlreadyClosed; and the handler emits at most one 'close' event.         *)
C9_SecondCloseFails ==
    /\ \A i \in 2..Len(h.closes) : h.closes[i].st # "ok"
    /\ Len(h.log[0]) <= 1

(* C10: after a close() made while the status was Connecting, the only     *)
(* close() made, the status is never Connected, and once nothing is left   *)
(* to run the status is Closed.                                            *)
C10_CloseWhileConnecting ==
    (Len(h.closes) = 1 /\ h.closes[1].at = Connecting /\ ~h.crashed)
        => (/\ h.__status # Connected
            /\ Quiescent(h) => h.__status = Closed)

(* C11: a close() called with a status other than Closed and Connecting    *)
(* sets the status to Closing; when that close() completes the status is   *)
(* Closed, the held resource was closed once, and exactly one 'close' has  *)
(* been emitted.                                                           *)
C11_CloseTearsDownInOrder ==
    [][/\ (Len(h'.closes) = Len(h.closes) + 1 /\ h.__status \notin {Closed, Connecting})
            => h'.__status = Closing
       /\ \A i \in 1..Len(h.closes) :
            (h.closes[i].st = "wait" /\ h'.closes[i].st = "ok")
            => (/\ h'.__status = Closed
                /\ Len(h'.log[0]) = 1
                /\ \A r \in SeqIds : h'.res[r].closed <= 1)]_vars

(* C12: when the callbacks of process.nextTick have run, the listeners of  *)
(* 'status' have been told the status the handler has; and no step that    *)
(* changes the status tells them within that step.                         *)
C12_StatusDelivered ==
    [][/\ (h.ticks # <<>> /\ h'.ticks = <<>>) => h'.seen = h'.__status
       /\ h'.__status # h.__status => h'.seen = h.seen]_vars

(* C13: on a handler close() was never called on, connect() never rejects: *)
(* the slot it awaits is not a rejected promise, nor does the attempt in   *)
(* flight at the call end in a rejection; called with status Connecting or *)
(* Connected it changes nothing, called with status Error it starts one    *)
(* acquisition sequence.                                                   *)
C13_ConnectIdempotent ==
    [][~CloseCalled(h')
        => LET h1 == connect(h)
           IN  /\ ~Throws(h1, h1.__resource)
               /\ Pending(h, h.__resource) => ~Throws(h', h.__resource)
               /\ h.__status \in {Connecting, Connected} => h1 = h
               /\ (h.__status = Error /\ CanStart(h))
                     => (/\ Started(h1) = Started(h) + 1
                         /\ FactoryCalls(h1) = FactoryCalls(h) + 1)]_vars

(* C14: the status is Closing or Closed only if close() has been called.   *)
C14_ClosedOnlyByClose ==
    h.__status \in {Closing, Closed} => CloseCalled(h)

\* C15: when a Sender is closed with a channel in hand, the channel's close is
\* invoked exactly when the status of the parent Connection is Connected at
\* the moment the closer runs; otherwise the teardown completes and the
\* channel is left unclosed.
SenderCloserRuns ==
    /\ Len(n.snd.closes) = 1
    /\ n.snd.closes[1].st = "wait"
    /\ n'.snd.closes[1].st # "wait"
    /\ n.snd.closes[1].on \in SeqIds
    /\ n.snd.att[n.snd.closes[1].on].st = "ok"

C15_SenderCloser ==
    [][SenderCloserRuns =>
         LET p == n.snd.closes[1].on
         IN  /\ n'.snd.closes[1].st = "ok"
             /\ n'.snd.res[p].closed =
                    n.snd.res[p].closed + (IF n.conn.__status = Connected THEN 1 ELSE 0)]_vars

\* a Sender closed while its Connection was not Connected: the channel was
\* handed to the closer and not closed
C15_Witness ==
    /\ Len(n.snd.closes) = 1
    /\ n.snd.closes[1].st = "ok"
    /\ n.snd.closes[1].on \in SeqIds
    /\ n.snd.att[n.snd.closes[1].on].st = "ok"
    /\ n.snd.res[n.snd.closes[1].on].closed = 0
    /\ n.conn.__status # Connected

\* C16: Sender.send(routingKey, payload, options) calls publish exactly once,
\* on the channel the Sender holds, with the configured exchange, the given
\* routing key and options, and resolves to the boolean publish returned; with
\* no channel to be had it rejects and publish is not called.
C16_SendPublishesOnce ==
    [][n'.sent # n.sent =>
         IF resource(n.snd) = "resource"
         THEN /\ Len(n'.sent.publishes) = 1
              /\ n'.sent.publishes[1].channel = n.snd.__resource
              /\ n'.sent.publishes[1].exchange = Exchange
              /\ n'.sent.publishes[1].routingKey = n'.sent.call.topic
              /\ n'.sent.publishes[1].options = n'.sent.call.options
              /\ n'.sent.result.settled = "resolved"
                    => n'.sent.result.value = n'.sent.publishes[1].returned
         ELSE /\ n'.sent.publishes = <<>>
              /\ n'.sent.result.settled = "rejected"]_vars

\* C17: every channel that becomes the resource a Subscriber holds, at the
\* first acquisition or after a recovery, has had one consumer registered on
\* the Subscriber's queue with noAck before that; when consume fails the
\* attempt is a failed one and its channel does not reach the handler.
AutoAckConsumer == [queue |-> Queue, noAck |-> TRUE]

ConsumeSettles(s) ==
    /\ n.sub.att[s].st = "factory"
    /\ n.phase[s] = "consume"
    /\ n'.sub.att[s] # n.sub.att[s]

C17_ConsumesBeforeHeld ==
    [][\A s \in SeqIds :
         /\ n'.sub.res[s].made => n'.consumers[s] = <<AutoAckConsumer>>
         /\ (ConsumeSettles(s) /\ n'.consumers[s] = n.consumers[s])
              => /\ Len(n'.sub.att[s].errs) = Len(n.sub.att[s].errs) + 1
                 /\ n'.sub.att[s].st # "ok"
                 /\ ~n'.sub.res[s].made]_vars

\* the Subscriber holds, Connected, the channel of a later acquisition
\* sequence, one of whose attempts failed before the consumer was registered
C17_Witness ==
    \E s \in SeqIds :
        /\ s > 1
        /\ n.sub.__status = Connected
        /\ n.sub.__resource = s
        /\ n.sub.att[s].st = "ok"
        /\ n.sub.att[s].errs # <<>>
        /\ n.phase[s] = "consume"
        /\ n.consumers[s] # <<>>

\* C18: each delivery of a message to the consumer of a Subscriber's channel
\* emits one 'message' event that carries the very message, routing key and
\* content, in the order of the deliveries; a null delivery emits nothing.
IsMessage(msg) == msg # NullMsg

C18_MessagePerDelivery ==
    /\ n.messages = SelectSeq(n.delivered, IsMessage)
    /\ \A i \in 1..Len(n.messages) : n.messages[i] \in Msgs

\* a null delivery, then a message: one 'message' event, the message's
C18_Witness ==
    /\ Len(n.delivered) = 2
    /\ n.delivered[1] = NullMsg
    /\ n.delivered[2] \in Msgs
    /\ n.messages = <<n.delivered[2]>>

\* C19: once the broker connection of a Connection is lost, the channels made
\* on it have emitted 'close' or 'error' and the Connection has reconnected,
\* every Sender and Subscriber on it that was not closed comes to hold a
\* channel made on the new broker connection, with status Connected.  Stated
\* on the node at rest, where nothing is left to run that could bring it about.
AtRest(nn) ==
    \A k \in nn.parts :
        /\ ~nn[k].crashed
        /\ ~MicrotaskReady(nn[k])
        /\ nn[k].ticks = <<>>
        /\ ~nn[k].delay
        /\ \A s \in SeqIds : ~Pending(nn[k], s)

\* the first broker connection is lost and the Connection holds a later one
Reconnected(nn) ==
    /\ nn.conn.res[1].lost
    /\ nn.conn.__status = Connected
    /\ nn.conn.__resource \in SeqIds
    /\ alive(nn, nn.conn.__resource)

\* no handler still listens to a channel of a broker connection that is gone
CascadeOver(nn) ==
    \A k \in Channels \cap nn.parts, s \in SeqIds :
        nn[k].res[s].subscribed => alive(nn, nn.from[k][s])

HoldsChannelOf(nn, k, r) ==
    /\ nn[k].__status = Connected
    /\ nn[k].__resource \in SeqIds
    /\ nn[k].att[nn[k].__resource].st = "ok"
    /\ nn.from[k][nn[k].__resource] = r

C19_ChannelsRecover ==
    (AtRest(n) /\ Reconnected(n) /\ CascadeOver(n))
        => \A k \in Channels \cap n.parts :
               n[k].closes = <<>> => HoldsChannelOf(n, k, n.conn.__resource)

\* C20: an 'error' or a 'close' of the channel of one Sender or Subscriber
\* changes nothing of the parent Connection nor of the sibling on that
\* Connection: status, error and slot stay what they were, and the process
\* goes on.
ChannelEvent(k, r) ==
    /\ n[k].res[r].subscribed
    /\ ~n[k].res[r].lost
    /\ n'[k].res[r].lost

C20_ChannelEventIsLocal ==
    [][\A k \in Channels, r \in SeqIds :
         ChannelEvent(k, r)
            => /\ \A j \in Handlers \ {k} :
                     /\ n'[j].__status = n[j].__status
                     /\ n'[j].__err = n[j].__err
                     /\ n'[j].__resource = n[j].__resource
                     /\ n'[j] = n[j]
               /\ ~n'[k].crashed]_vars

\* the channel of the Sender failed; the Connection and the Subscriber are
\* Connected, on the broker connection and the channel they had
C20_Witness ==
    \E r \in SeqIds :
        /\ n.snd.res[r].lost
        /\ n.snd.__status = Error
        /\ n.snd.__err = ResourceError
        /\ n.conn.__status = Connected
        /\ n.conn.__err = None
        /\ alive(n, n.conn.__resource)
        /\ n.sub.__status = Connected
        /\ n.sub.__err = None
        /\ open(n, "sub", n.sub.__resource)

\* C21: over calls of pool.open with no pool.close between them, two calls
\* return the same Connection exactly when their settings have the same
\* fields with the same values, whatever the order of the fields, credentials
\* included; and no two Connections are made for equal settings.
SameSettings(s1, s2) == Fields(s1) = Fields(s2)

NoCloseBetween(i, j) ==
    \A k \in (i + 1)..(j - 1) : pool.ops[k].op # "close"

NoCloseUpTo(j) == \A k \in 1..j : pool.ops[k].op # "close"

C21_OpenSharesBySettings ==
    /\ \A i, j \in 1..Len(pool.ops) :
          (i < j /\ pool.ops[i].op = "open" /\ pool.ops[j].op = "open"
                 /\ NoCloseBetween(i, j))
            => (pool.ops[i].conn = pool.ops[j].conn
                  <=> SameSettings(pool.ops[i].settings, pool.ops[j].settings))
    /\ NoCloseUpTo(Len(pool.ops))
          => \A c1, c2 \in 1..Len(pool.made) :
                 c1 # c2 => ~SameSettings(pool.made[c1], pool.made[c2])

\* three calls of open: two with the same fields in another order share a
\* Connection, the third, with another password, has its own
C21_Witness ==
    /\ Len(pool.ops) = 3
    /\ NoCloseUpTo(3)
    /\ pool.ops[1].settings # pool.ops[2].settings
    /\ SameSettings(pool.ops[1].settings, pool.ops[2].settings)
    /\ pool.ops[1].conn = pool.ops[2].conn
    /\ valueOf(pool.ops[3].settings, "password") # valueOf(pool.ops[1].settings, "password")
    /\ valueOf(pool.ops[3].settings, "host") = valueOf(pool.ops[1].settings, "host")
    /\ pool.ops[3].conn # pool.ops[1].conn

\* C22: pool.close(S) for settings the pool has an entry for removes the
\* entry and calls close() once, on the Connection of that entry and on no
\* other; an open(S) after it makes a new Connection and registers it, also
\* while the close() of the old one has not settled.
LastOp == pool'.ops[Len(pool'.ops)]

Called(op) == Len(pool'.ops) = Len(pool.ops) + 1 /\ LastOp.op = op

C22_CloseRemovesAndCloses ==
    [][/\ \A c \in Conns : pool'.closed[c] <= 1
       /\ (Called("close") /\ pool.POOL[toHash(LastOp.settings)] # NoConn)
            => /\ pool'.POOL = [pool.POOL EXCEPT ![toHash(LastOp.settings)] = NoConn]
               /\ pool'.closing = <<pool.POOL[toHash(LastOp.settings)]>>
               /\ pool'.closed = pool.closed
       /\ (pool.closing # <<>> /\ pool'.closing = <<>>)
            => pool'.closed = [pool.closed EXCEPT ![pool.closing[1]] = @ + 1]
       /\ (Called("open") /\ pool.POOL[toHash(LastOp.settings)] = NoConn)
            => /\ LastOp.conn \notin 1..Len(pool.made)
               /\ pool.closed[LastOp.conn] = 0
               /\ pool'.POOL[toHash(LastOp.settings)] = LastOp.conn
               /\ pool'.made = Append(pool.made, LastOp.settings)]_vars

\* the pool holds a second Connection for settings whose first Connection
\* has had its close() called, and that close() has not settled
C22_Witness ==
    \E c1, c2 \in 1..Len(pool.made) :
        /\ c1 # c2
        /\ SameSettings(pool.made[c1], pool.made[c2])
        /\ pool.closed[c1] = 1
        /\ c1 \notin pool.done
        /\ pool.POOL[toHash(pool.made[c1])] = c2
        /\ pool.closed[c2] = 0

\* C23: pool.close(S) for settings the pool has no entry for, never opened
\* or closed before, resolves, leaves POOL as it is and calls close() on no
\* Connection.
C23_CloseOfAbsentIsNoOp ==
    [][(Called("close") /\ pool.POOL[toHash(LastOp.settings)] = NoConn)
         => /\ LastOp.result = "resolved"
            /\ pool'.POOL = pool.POOL
            /\ pool'.closing = <<>>
            /\ pool'.closed = pool.closed
            /\ pool'.made = pool.made]_vars

\* open, close, close of the same settings: the second close found no entry,
\* and one Connection was closed once
C23_Witness ==
    /\ Len(pool.ops) = 3
    /\ pool.ops[1].op = "open"
    /\ pool.ops[2].op = "close"
    /\ pool.ops[3].op = "close"
    /\ SameSettings(pool.ops[1].settings, pool.ops[2].settings)
    /\ SameSettings(pool.ops[1].settings, pool.ops[3].settings)
    /\ pool.ops[3].conn = NoConn
    /\ pool.ops[3].result = "resolved"
    /\ pool.closing = <<>>
    /\ pool.closed[1] = 1
    /\ \A c \in Conns : c # 1 => pool.closed[c] = 0

\* C24: closing a Sender or a Subscriber does not call close() on the
\* Connection, does not change the Connection's status and removes nothing
\* from the pool.
C24_ChannelCloseSparesConnection ==
    [][\A k \in Channels :
         n'[k].closes # n[k].closes
            => /\ n'.conn.closes = n.conn.closes
               /\ n'.conn.__status = n.conn.__status
               /\ n'.conn = n.conn
               /\ pool' = pool]_vars

\* the Sender and the Subscriber have been closed, the Sender's channel
\* with them; the Connection is Connected and close() was not called on it
C24_Witness ==
    /\ Len(n.snd.closes) = 1
    /\ n.snd.closes[1].st = "ok"
    /\ n.snd.closes[1].on \in SeqIds
    /\ n.snd.res[n.snd.closes[1].on].closed = 1
    /\ Len(n.sub.closes) = 1
    /\ n.sub.closes[1].st = "ok"
    /\ n.conn.closes = <<>>
    /\ n.conn.__status = Connected

\* C25: every 'blocked' and 'unblocked' event that the broker connection
\* emits while the Connection holds it is emitted again for the listeners
\* registered on the Connection.
C25_BrokerEventsForwarded == n.forwarded = n.emitted

\* a value the receiving side made from the content is the payload sent
SameValue(decoded, payload) ==
    /\ decoded.type = payload.type
    /\ decoded.text = <<payload.value>>

\* C26: a message published with Sender.send(routingKey, payload) and
\* delivered to a Subscriber gives a 'message' event with that routing key,
\* and the payload the receiving side decodes from it is the payload sent.
C26_RoundTrip ==
    io.stage = "out"
        => /\ io.message.routingKey = io.args.topic
           /\ SameValue(io.out.payload, io.args.payload)

\* the msg object itself, as a payload
WholeMsg == [type |-> "object", value |-> "msg"]

\* C27: the amqp-out node sends the whole msg as content when msg has no
\* payload; it uses the routing key configured on the node when there is
\* one and msg.topic otherwise.
C27_OutNodeArguments ==
    io.stage \notin {"idle", "input"}
        => /\ io.args.topic = (IF io.routingkey # "" THEN io.routingkey
                                                     ELSE io.msg.topic)
           /\ io.args.payload = (IF io.msg.payload.type = "undefined"
                                 THEN WholeMsg ELSE io.msg.payload)

\* the value of an option of the policy: the one given, or the default
orGiven(opt, default) == IF opt.given THEN opt.value ELSE default

\* the wait before attempt k + 1 under the policy given
PolicyWait(opts, k) ==
    LET t == orGiven(opts.minTimeout, 5000) * pow(orGiven(opts.factor, 2), k - 1)
        maxDelay == orGiven(opts.maxTimeout, Infinity)
    IN  IF t < maxDelay THEN t ELSE maxDelay

\* C28: with jitter off the wait before attempt k + 1 of an acquisition is
\* min(minDelay * factor^(k - 1), maxDelay), so the waits never decrease; a
\* factory that fails 3 times under {minDelay 10, factor 2} succeeds after
\* the waits 10, 20, 40.
C28_WaitsFollowPolicy ==
    /\ \A k \in 1..Len(bo.waits) : bo.waits[k] = PolicyWait(bo.opts, k)
    /\ \A k \in 1..(Len(bo.waits) - 1) : bo.waits[k] <= bo.waits[k + 1]
    /\ (/\ bo.stage = "resolved"
        /\ bo.opts.minTimeout = Given(10)
        /\ bo.opts.factor = Given(2)
        /\ ~bo.opts.maxTimeout.given
        /\ Len(bo.waits) = 3)
            => bo.waits = <<10, 20, 40>>

\* a step that is an event of a subscribed resource or a call of connect()
\* made while a recovery is active
EventWhileRecovering ==
    /\ h.isReconnecting
    /\ \/ \E r \in SeqIds :
            /\ h.res[r].subscribed
            /\ h' \in {onResourceError(h, r), onResourceClose(h, r)}
       \/ h' = connect(h)

\* a step that is the 'close' of the resource a Connected handler holds
CloseAtConnected ==
    \E r \in SeqIds :
        /\ h.__status = Connected
        /\ h.__resource = r
        /\ h.res[r].subscribed
        /\ ~h.isReconnecting
        /\ ~CloseCalled(h)
        /\ h' = onResourceClose(h, r)

\* C29: an event or a recovery request that arrives while a recovery is
\* active changes no state and calls no factory, and a 'close' of the
\* resource of a Connected handler starts exactly one recovery: after it
\* the handler is recovering, with one delay or one attempt under way.
C29_OneRecovery ==
    [][/\ EventWhileRecovering
            => (h' = h /\ FactoryCalls(h') = FactoryCalls(h))
       /\ CloseAtConnected
            => (h'.isReconnecting
                    \/ FactoryCalls(h') = FactoryCalls(h) + 1)]_vars

\* C30: a recovery ends, close() not called, only when an attempt of it has
\* ended Connected or when maxReconnectAttempts attempts have failed; in
\* the second case the periodic reconnect goes on, so the handler is never
\* left out of recovery and not Connected.
C30_RecoveryEndsConnected ==
    [][(h.isReconnecting /\ ~h'.isReconnecting /\ ~CloseCalled(h'))
            => h'.__status = Connected]_vars

\* the resource of s was made by the factory and the handler did not take it
Discarded(hh, s) == hh.res[s].made /\ hh.att[s].st # "ok"

\* C31: a resource the factory returns after the handler moved to Closing is
\* never subscribed and never held, the attempt settles as failed, and the
\* resource is closed exactly once: never twice, and once when nothing is
\* left to run.
C31_LateResourceClosed ==
    \A s \in SeqIds :
        Discarded(h, s)
        => (/\ ~h.res[s].subscribed
            /\ h.att[s].st \in {"null", "threw"}
            /\ h.res[s].closed <= 1
            /\ (Quiescent(h) /\ ~h.crashed) => h.res[s].closed = 1)

\* the task of this step aborts the attempt of s: close() was called while
\* it was in flight, and now the retry input finds the status Closing or
\* the factory's resource arrives with the status Closing
Aborted(s) ==
    /\ h.__status = Closing
    /\ \/ h.att[s].st = "backoff"
       \/ h.att[s].st = "factory" /\ h'.res[s].made
    /\ Settled(h', s)

\* C32: the abort of an attempt by close() is silent: the step emits no
\* 'error', leaves the stored error as it was and does not set the status
\* to Error.
C32_AbortIsSilent ==
    [][\A s \in SeqIds :
          Aborted(s)
          => (/\ h'.log[s] = h.log[s]
              /\ h'.__err = h.__err
              /\ h'.__status # Error)]_vars

\* the statuses the step sets, in their order, after the one it starts with
StatusesOfStep ==
    <<h.__status>> \o
        (IF Len(h'.ticks) >= Len(h.ticks) /\ h.ticks = SubSeq(h'.ticks, 1, Len(h.ticks))
         THEN SubSeq(h'.ticks, Len(h.ticks) + 1, Len(h'.ticks))
         ELSE <<>>)

AllowedTransitions ==
    {<<Connecting, Connected>>, <<Connecting, Error>>, <<Connected, Error>>,
     <<Error, Connecting>>, <<Connecting, Closing>>, <<Connected, Closing>>,
     <<Error, Closing>>, <<Closing, Closed>>}

\* C33: every change of the status is Connecting to Connected, Connecting
\* to Error, Connected to Error, Error to Connecting, Connecting, Connected
\* or Error to Closing, or Closing to Closed.
C33_StatusTransitions ==
    [][LET st == StatusesOfStep
       IN  \A i \in 1..(Len(st) - 1) :
               st[i] # st[i + 1] => <<st[i], st[i + 1]>> \in AllowedTransitions]_vars

\* C34: while an attempt of the sequence the handler awaits is in flight,
\* resource() fails at once with Unavailable: it does not stay pending.
C34_ResourceFailsFast ==
    Pending(h, h.__resource) => resource(h) = "unavailable"

\* C35: resource() never resolves to a resource that has emitted 'error' or
\* 'close'.
C35_NoLostResourceHandedOut ==
    resource(h) = "resource" => ~h.res[h.__resource].lost

\* the handler holds the resource of s
Held(hh, s) == hh.__resource = s /\ hh.att[s].st = "ok"

\* C36: when nothing is left to run, every resource the factory has
\* returned is the one the handler holds, or has been closed by the handler,
\* or has emitted 'error' or 'close' and has no listener of the handler
\* left; and at no moment does more than one resource have listeners of the
\* handler.
C36_NoResourceLeaked ==
    /\ (Quiescent(h) /\ ~h.crashed)
          => \A s \in SeqIds :
                h.res[s].made
                => \/ Held(h, s)
                   \/ h.res[s].closed > 0
                   \/ h.res[s].lost /\ ~h.res[s].subscribed
    /\ Cardinality({s \in SeqIds : h.res[s].subscribed}) <= 1

\* C37: the stored error agrees with the status: with status Error an
\* error is stored, with status Connecting or Connected none is.
C37_ErrorAgreesWithStatus ==
    /\ h.__status = Error => h.__err # None
    /\ h.__status \in {Connecting, Connected} => h.__err = None

\* C38: a handler added with Subscriber.once (Sender.once is the same code)
\* for 'message' is called at most once, whatever the number of 'message'
\* events the Subscriber emits, as a handler added with Connection.once for
\* 'open' is, whatever the number of times the Connection opens.
C38_OnceCalledOnce ==
    /\ calls(SubscriberOnce(<<>>, "message", "f"), "message", "f",
             Len(n.messages)) <= 1
    /\ calls(ConnectionOnce(<<>>, "open", "f"), "open", "f",
             Cardinality({s \in SeqIds : n.conn.att[s].st = "ok"})) <= 1

\* the calls of pool.open and pool.close made with settings of this hash
OpsOf(kind, hash, upto) ==
    {i \in 1..upto : pool.ops[i].op = kind /\ toHash(pool.ops[i].settings) = hash}

\* the server node that made the call i of open has not been closed: the
\* k-th close of settings is made by the k-th server node that opened them
LiveUser(i) ==
    LET hash == toHash(pool.ops[i].settings)
    IN  /\ pool.ops[i].op = "open"
        /\ Cardinality(OpsOf("open", hash, i))
               > Cardinality(OpsOf("close", hash, Len(pool.ops)))

\* C39: the Connection that a server node not yet closed got from the pool,
\* the one its Senders and Subscribers use, is the one registered in the
\* pool under its settings, and close() has not been called on it.
C39_LiveUsersHoldPooledConnection ==
    \A i \in 1..Len(pool.ops) :
        LiveUser(i)
        => (/\ pool.POOL[toHash(pool.ops[i].settings)] = pool.ops[i].conn
            /\ pool.closed[pool.ops[i].conn] = 0)

\* C40: the promise Sender.close() or Subscriber.close() returns is pending
\* while the close() of the handler is, and rejects when that one rejects.
C40_CloseFollowsHandler ==
    \A k \in {"snd", "sub"} \cap n.parts :
        \A i \in 1..Len(n[k].closes) :
            closePromise(k, n[k].closes[i]).st = n[k].closes[i].st

====
